---- MODULE Spec2Model ----
(***************************************************************************)
(* Model of textParser2.py: parse_discord_data, save_to_jsonl,             *)
(* save_for_label_studio and main.                                         *)
(*                                                                         *)
(* Text is a sequence of one-character strings, so that the regular        *)
(* expressions of the source are modelled by what they match, character    *)
(* by character.  Positions are 1-based; a position Len(s)+1 is the end    *)
(* of the string (\Z).                                                     *)
(***************************************************************************)
EXTENDS Integers, Sequences, FiniteSets, TLC

VARIABLES
    document,   \* the text of the input file (args.input_file)
    format,     \* args.format
    pc,         \* position of main / parse_discord_data
    content,    \* the local variable `content` of parse_discord_data
    metadata,   \* the local variable `metadata`
    iter,       \* the re.finditer iterator of line 32: its string and position
    messages,   \* the local list `messages`
    output      \* the text of the output file (args.output)

vars == <<document, format, pc, content, metadata, iter, messages, output>>

----------------------------------------------------------------------------
(* Characters and elementary matching                                      *)

Digit == {"0", "1", "2", "3", "4", "5", "6", "7", "8", "9"}

\* \s of the re module and the characters str.strip() removes, as far as
\* they occur in the modelled documents
Whitespace == {" ", "\n", "\t", "\r"}

NewlineChar == {"\n"}

\* the literal lit occurs in s at position p
LitAt(s, p, lit) ==
    /\ p >= 1
    /\ p + Len(lit) - 1 <= Len(s)
    /\ SubSeq(s, p, p + Len(lit) - 1) = lit

\* the least i in a..b with P[i], or 0: a scan from the left, as the regex
\* engine tries the start positions of a search (halving keeps the evaluation
\* shallow on long texts)
RECURSIVE First(_, _, _)
First(P, a, b) ==
    IF a > b THEN 0
    ELSE IF a = b THEN (IF P[a] THEN a ELSE 0)
    ELSE LET m == (a + b) \div 2
             l == First(P, a, m)
         IN  IF l # 0 THEN l ELSE First(P, m + 1, b)

\* F[a] \o F[a+1] \o ... \o F[b]: a loop or comprehension that appends
RECURSIVE FlatMap(_, _, _)
FlatMap(F, a, b) ==
    IF a > b THEN <<>>
    ELSE IF a = b THEN F[a]
    ELSE LET m == (a + b) \div 2
         IN  FlatMap(F, a, m) \o FlatMap(F, m + 1, b)

\* greedy X+ / X* over a character class: the first position >= p not in cls
SkipIn(s, p, cls) ==
    LET q == First([i \in p..Len(s) |-> s[i] \notin cls], p, Len(s))
    IN  IF q # 0 THEN q ELSE IF p > Len(s) THEN p ELSE Len(s) + 1

\* greedy [^X]* : the first position >= p whose character is in cls, or the end
SkipNotIn(s, p, cls) ==
    LET q == First([i \in p..Len(s) |-> s[i] \in cls], p, Len(s))
    IN  IF q # 0 THEN q ELSE IF p > Len(s) THEN p ELSE Len(s) + 1

\* the first position >= p where lit occurs, or 0
Find(s, lit, p) ==
    LET last == Len(s) - Len(lit) + 1
    IN  First([i \in p..last |-> LitAt(s, i, lit)], p, last)

Contains(s, lit) == Find(s, lit, 1) # 0

\* str.strip()
Strip(s) ==
    LET a == SkipIn(s, 1, Whitespace)
        r == First([i \in 1..Len(s) |-> s[Len(s) + 1 - i] \notin Whitespace],
                   1, Len(s))
    IN  IF a > Len(s) THEN <<>> ELSE SubSeq(s, a, Len(s) + 1 - r)

\* the pieces of s[a..b] between newlines, always at least one
RECURSIVE SplitRange(_, _, _)
SplitRange(s, a, b) ==
    IF a > b THEN << <<>> >>
    ELSE IF a = b THEN (IF s[a] = "\n" THEN << <<>>, <<>> >> ELSE << <<s[a]>> >>)
    ELSE LET m == (a + b) \div 2
             l == SplitRange(s, a, m)
             r == SplitRange(s, m + 1, b)
         IN  SubSeq(l, 1, Len(l) - 1) \o << l[Len(l)] \o r[1] >> \o Tail(r)

\* str.split('\n')
SplitLines(s) == SplitRange(s, 1, Len(s))

\* '\n'.join(lines)
JoinLines(lines) ==
    FlatMap([i \in 1..Len(lines) |->
                 IF i = 1 THEN lines[i] ELSE <<"\n">> \o lines[i]],
            1, Len(lines))

\* [line.strip() for line in lines if line.strip()]
StrippedNonBlank(lines) ==
    FlatMap([i \in 1..Len(lines) |->
                 IF Strip(lines[i]) = <<>> THEN <<>> ELSE <<Strip(lines[i])>>],
            1, Len(lines))

\* [line for line in lines if line.strip()]
NonBlank(lines) ==
    FlatMap([i \in 1..Len(lines) |->
                 IF Strip(lines[i]) = <<>> THEN <<>> ELSE <<lines[i]>>],
            1, Len(lines))

\* Python's None and a str, as one kind of value
None == [isNone |-> TRUE, str |-> <<>>]
Str(s) == [isNone |-> FALSE, str |-> s]

----------------------------------------------------------------------------
(* Header: line 21-26                                                      *)

GuildLit == <<"\n", "G", "u", "i", "l", "d", ":", " ">>
ChannelLit == <<"\n", "C", "h", "a", "n", "n", "e", "l", ":", " ">>
TopicLit == <<"\n", "T", "o", "p", "i", "c", ":", " ">>
ChannelSep == <<" ", "/", " ">>

NoMatch == [found |-> FALSE, groups |-> <<>>, end |-> 0]

\* the header pattern matched at p, given the ends of its parts: e1 of the
\* first run of '=', g2, c2 and t2 of the guild, channel and topic lines
HeaderMatch(s, p, e1, g2, c2, t2) ==
    IF /\ e1 >= p + 2
       /\ LitAt(s, e1, GuildLit)
       /\ LitAt(s, g2, ChannelLit)
       /\ LitAt(s, c2, TopicLit)
       /\ LitAt(s, t2, <<"\n", "=", "=">>)
    THEN [found |-> TRUE,
          groups |-> <<SubSeq(s, e1 + Len(GuildLit), g2 - 1),
                       SubSeq(s, g2 + Len(ChannelLit), c2 - 1),
                       SubSeq(s, c2 + Len(TopicLit), t2 - 1)>>,
          end |-> SkipIn(s, t2 + 1, {"="})]
    ELSE NoMatch

\* r'==+\nGuild: (.*)\nChannel: (.*)\nTopic: (.*)\n==+' matched at position p.
\* '.' does not match a newline here, so each (.*) is the rest of its line.
HeaderMatchAt(s, p) ==
    LET e1 == SkipIn(s, p, {"="})
        g2 == SkipNotIn(s, e1 + Len(GuildLit), NewlineChar)
        c2 == SkipNotIn(s, g2 + Len(ChannelLit), NewlineChar)
        t2 == SkipNotIn(s, c2 + Len(TopicLit), NewlineChar)
    IN  HeaderMatch(s, p, e1, g2, c2, t2)

\* re.search: the leftmost match
HeaderSearch(s) ==
    LET p == First([i \in 1..Len(s) |-> HeaderMatchAt(s, i).found], 1, Len(s))
    IN  IF p = 0 THEN NoMatch ELSE HeaderMatchAt(s, p)

\* split(' / ')[0] in place of [-1]: the text before the first separator
SplitFirst(s, sep) ==
    LET i == Find(s, sep, 1)
    IN  IF i = 0 THEN s ELSE SubSeq(s, 1, i - 1)

\* str.split(' / ')[-1]: separators are taken left to right, without overlap
RECURSIVE SplitLast(_, _)
SplitLast(s, sep) ==
    LET i == Find(s, sep, 1)
    IN  IF i = 0 THEN s ELSE SplitLast(SubSeq(s, i + Len(sep), Len(s)), sep)

\* line 22-26
Metadata(header_match) ==
    IF header_match.found
    THEN [guild |-> Str(header_match.groups[1]),
          channel |-> Str(SplitLast(header_match.groups[2], ChannelSep)),
          topic |-> Str(header_match.groups[3])]
    ELSE [guild |-> None, channel |-> None, topic |-> None]

\* line 21-26
HeaderMetadata(s) == Metadata(HeaderSearch(s))

----------------------------------------------------------------------------
(* Message pattern: line 29                                                *)

\* n runs of digits (\d+), the first from p on and each next one after the one
\* character that follows the run before it: the positions <<q1, ..., qn>>
\* where the runs end (qk is the position after the last digit of run k)
RECURSIVE DigitRuns(_, _, _)
DigitRuns(s, p, n) ==
    IF n = 0 THEN <<>>
    ELSE LET q == SkipIn(s, p, Digit)
         IN  <<q>> \o DigitRuns(s, q + 1, n - 1)

\* the bracket pattern at p, given the ends d of its five runs of digits
TimestampBracket(s, p, d) ==
    IF /\ LitAt(s, p, <<"[">>)
       /\ d[1] > p + 1    /\ LitAt(s, d[1], <<"/">>)
       /\ d[2] > d[1] + 1 /\ LitAt(s, d[2], <<"/">>)
       /\ d[3] > d[2] + 1 /\ LitAt(s, d[3], <<" ">>)
       /\ d[4] > d[3] + 1 /\ LitAt(s, d[4], <<":">>)
       /\ d[5] > d[4] + 1 /\ LitAt(s, d[5], <<" ">>)
       /\ (LitAt(s, d[5] + 1, <<"A">>) \/ LitAt(s, d[5] + 1, <<"P">>))
       /\ LitAt(s, d[5] + 2, <<"M", "]">>)
    THEN d[5] + 4
    ELSE 0

\* r'\[\d+/\d+/\d+ \d+:\d+ [AP]M\]' matched at p: the position after ']', or 0
TimestampBracketEnd(s, p) == TimestampBracket(s, p, DigitRuns(s, p + 1, 5))

\* (.*?)(?=\[\d+/\d+/\d+ \d+:\d+ [AP]M\]|\Z) with DOTALL: the first position
\* >= p where a timestamp bracket starts, or the end of the string
BodyEnd(s, p) ==
    LET q == First([i \in p..Len(s) |-> TimestampBracketEnd(s, i) # 0],
                   p, Len(s))
    IN  IF q = 0 THEN Len(s) + 1 ELSE q

\* message_pattern at p, given the end e of the bracket, the position a of the
\* newline that ends the author and the end b of the body
MessageMatch(s, p, e, a, b) ==
    IF /\ e # 0
       /\ LitAt(s, e, <<" ">>)
       /\ a > e + 1
       /\ a <= Len(s)
    THEN [found |-> TRUE,
          groups |-> <<SubSeq(s, p + 1, e - 2), SubSeq(s, e + 1, a - 1),
                       SubSeq(s, a + 1, b - 1)>>,
          end |-> b]
    ELSE NoMatch

\* message_pattern matched at p; groups are (timestamp_str, author, body)
MessageMatchAt(s, p) ==
    LET e == TimestampBracketEnd(s, p)
        a == SkipNotIn(s, e + 1, NewlineChar)
        b == BodyEnd(s, a + 1)
    IN  MessageMatch(s, p, e, a, b)

\* one step of re.finditer: the leftmost match starting at or after p
MessageSearch(s, p) ==
    LET q == First([i \in p..Len(s) |-> MessageMatchAt(s, i).found],
                   p, Len(s))
    IN  IF q = 0 THEN NoMatch ELSE MessageMatchAt(s, q)

----------------------------------------------------------------------------
(* Timestamp: line 36-40                                                   *)

DigitChars == <<"0", "1", "2", "3", "4", "5", "6", "7", "8", "9">>

DigitVal(c) == (CHOOSE i \in 1..10 : DigitChars[i] = c) - 1

\* int() of a run of digits
RECURSIVE ToInt(_)
ToInt(ds) ==
    IF ds = <<>> THEN 0
    ELSE 10 * ToInt(SubSeq(ds, 1, Len(ds) - 1)) + DigitVal(ds[Len(ds)])

\* the decimal digits of n, zero-padded to at least w characters ('%0wd')
RECURSIVE Pad(_, _)
Pad(n, w) ==
    IF n < 10 /\ w <= 1 THEN <<DigitChars[n + 1]>>
    ELSE Pad(n \div 10, w - 1) \o <<DigitChars[(n % 10) + 1]>>

\* the fields of a string that matches \d+/\d+/\d+ \d+:\d+ [AP]M, given the
\* ends d of its five runs of digits
Fields(ts, d) ==
    [m |-> SubSeq(ts, 1, d[1] - 1),
     d |-> SubSeq(ts, d[1] + 1, d[2] - 1),
     Y |-> SubSeq(ts, d[2] + 1, d[3] - 1),
     I |-> SubSeq(ts, d[3] + 1, d[4] - 1),
     M |-> SubSeq(ts, d[4] + 1, d[5] - 1),
     p |-> ts[d[5] + 1]]

TimestampFields(ts) == Fields(ts, DigitRuns(ts, 1, 5))

IsLeap(y) == (y % 4 = 0 /\ y % 100 # 0) \/ y % 400 = 0

\* a calendar in which every year is a leap year
DaysInMonthLeap(y, m) ==
    IF m = 2 THEN 29
    ELSE IF m \in {4, 6, 9, 11} THEN 30
    ELSE 31

DaysInMonth(y, m) ==
    IF m = 2 THEN (IF IsLeap(y) THEN 29 ELSE 28)
    ELSE IF m \in {4, 6, 9, 11} THEN 30
    ELSE 31

\* the datetime of the fields f, with ok FALSE where strptime raises
\* ValueError. %m, %d, %I and %M take one or two digits, %Y exactly four;
\* the datetime constructor rejects year 0 and a day past the month's end.
DateTime(f) ==
    IF /\ Len(f.m) <= 2 /\ ToInt(f.m) \in 1..12
       /\ Len(f.d) <= 2 /\ ToInt(f.d) \in 1..31
       /\ Len(f.Y) = 4 /\ ToInt(f.Y) >= 1
       /\ Len(f.I) <= 2 /\ ToInt(f.I) \in 1..12
       /\ Len(f.M) <= 2 /\ ToInt(f.M) \in 0..59
       /\ ToInt(f.d) <= DaysInMonth(ToInt(f.Y), ToInt(f.m))
    THEN [ok |-> TRUE, year |-> ToInt(f.Y), month |-> ToInt(f.m),
          day |-> ToInt(f.d),
          hour |-> (ToInt(f.I) % 12) + (IF f.p = "A" THEN 0 ELSE 12),
          minute |-> ToInt(f.M)]
    ELSE [ok |-> FALSE, year |-> 0, month |-> 0, day |-> 0, hour |-> 0,
          minute |-> 0]

\* datetime.strptime(timestamp_str, '%m/%d/%Y %I:%M %p')
Strptime(ts) == DateTime(TimestampFields(ts))

\* datetime.isoformat() of a datetime with zero seconds and microseconds
IsoFormat(t) ==
    Pad(t.year, 4) \o <<"-">> \o Pad(t.month, 2) \o <<"-">> \o Pad(t.day, 2)
        \o <<"T">> \o Pad(t.hour, 2) \o <<":">> \o Pad(t.minute, 2)
        \o <<":", "0", "0">>

\* line 36-40: the try block and its except ValueError
FormattedTimestamp(timestamp_str) ==
    LET timestamp == Strptime(timestamp_str)
    IN  IF timestamp.ok THEN IsoFormat(timestamp) ELSE timestamp_str

----------------------------------------------------------------------------
(* Attachments, embeds, reactions: line 42-60                              *)

AttachmentsMarker ==
    <<"{", "A", "t", "t", "a", "c", "h", "m", "e", "n", "t", "s", "}">>
EmbedMarker == <<"{", "E", "m", "b", "e", "d", "}">>
ReactionsMarker == <<"{", "R", "e", "a", "c", "t", "i", "o", "n", "s", "}">>
HttpsLit == <<"h", "t", "t", "p", "s", ":", "/", "/">>

\* the attachment pattern at p, given the end w of the whitespace after the
\* marker and the end u of the line that starts at w
AttachmentMatch(s, p, w, u) ==
    IF /\ LitAt(s, p, AttachmentsMarker)
       /\ w > p + Len(AttachmentsMarker)
       /\ LitAt(s, w, HttpsLit)
       /\ u > w + Len(HttpsLit)
    THEN [found |-> TRUE, groups |-> <<SubSeq(s, w, u - 1)>>, end |-> u]
    ELSE NoMatch

\* r'{Attachments}\s+(https://[^\n]+)' matched at p
AttachmentMatchAt(s, p) ==
    LET w == SkipIn(s, p + Len(AttachmentsMarker), Whitespace)
        u == SkipNotIn(s, w + Len(HttpsLit), NewlineChar)
    IN  AttachmentMatch(s, p, w, u)

\* line 44-46: group(1) of every match of re.finditer, left to right
RECURSIVE ExtractAttachments(_, _)
ExtractAttachments(s, p) ==
    LET q == First([i \in p..Len(s) |-> AttachmentMatchAt(s, i).found],
                   p, Len(s))
        att_match == AttachmentMatchAt(s, q)
    IN  IF q = 0 THEN <<>>
        ELSE <<att_match.groups[1]>> \o ExtractAttachments(s, att_match.end)

\* the section pattern at p, given the end w of the whitespace after the
\* marker and the position e of the first '[' from w on (or the end)
SectionMatch(s, p, marker, w, e) ==
    IF LitAt(s, p, marker) /\ w > p + Len(marker)
    THEN [found |-> TRUE, groups |-> <<SubSeq(s, w, e - 1)>>, end |-> e]
    ELSE NoMatch

\* r'{Marker}\s+(.*?)(?=\[|\Z)' with DOTALL, matched at p
SectionMatchAt(s, p, marker) ==
    LET w == SkipIn(s, p + Len(marker), Whitespace)
        e == SkipNotIn(s, w, {"["})
    IN  SectionMatch(s, p, marker, w, e)

\* re.search: the leftmost match
SectionSearch(s, marker) ==
    LET p == First([i \in 1..Len(s) |-> SectionMatchAt(s, i, marker).found],
                   1, Len(s))
    IN  IF p = 0 THEN NoMatch ELSE SectionMatchAt(s, p, marker)

\* line 49-54
ExtractEmbeds(s) ==
    LET embed_section == SectionSearch(s, EmbedMarker)
    IN  IF embed_section.found
        THEN StrippedNonBlank(SplitLines(Strip(embed_section.groups[1])))
        ELSE <<>>

\* line 57-60
ExtractReactions(s) ==
    LET reaction_section == SectionSearch(s, ReactionsMarker)
    IN  IF reaction_section.found
        THEN StrippedNonBlank(SplitLines(reaction_section.groups[1]))
        ELSE <<>>

----------------------------------------------------------------------------
(* Cleaned text: line 62-69                                                *)

\* .*?(?=\n\n|\n\[|\Z) with DOTALL from p: the first position >= p where a
\* blank line or a line starting with '[' follows, or the end of the string
SectionEnd(s, p) ==
    LET q == First([i \in p..Len(s) |-> \/ LitAt(s, i, <<"\n", "\n">>)
                              \/ LitAt(s, i, <<"\n", "[">>)],
                   p, Len(s))
    IN  IF q = 0 THEN Len(s) + 1 ELSE q

\* the same substitution with count=1: only the first section is removed
RemoveFirstSection(s, p, marker) ==
    LET i == Find(s, marker, p)
    IN  IF i = 0 THEN SubSeq(s, p, Len(s))
        ELSE SubSeq(s, p, i - 1)
                 \o SubSeq(s, SectionEnd(s, i + Len(marker)), Len(s))

\* re.sub(r'{Marker}.*?(?=\n\n|\n\[|\Z)', '', s, flags=re.DOTALL)
\* applied to s from position p on: the text up to each match is kept, the
\* match is dropped, and the scan goes on where the match ended
RECURSIVE RemoveSections(_, _, _)
RemoveSections(s, p, marker) ==
    LET i == Find(s, marker, p)
    IN  IF i = 0 THEN SubSeq(s, p, Len(s))
        ELSE SubSeq(s, p, i - 1)
                 \o RemoveSections(s, SectionEnd(s, i + Len(marker)), marker)

\* line 63-69
CleanContent(s) ==
    LET c1 == RemoveSections(s, 1, AttachmentsMarker)
        c2 == RemoveSections(c1, 1, EmbedMarker)
        c3 == RemoveSections(c2, 1, ReactionsMarker)
    IN  Strip(JoinLines(NonBlank(SplitLines(c3))))

----------------------------------------------------------------------------
(* The loop body: line 33-85                                               *)

\* the third group bound to another name: `content` stays the whole document
LoopContentKeep(match, content_before) == content_before

\* line 33: the tuple assignment rebinds the name `content` to the third group
\* of the match; the iterator of line 32 keeps the string it was created with
LoopContent(match, content_before) == match.groups[3]

\* a message whose channel and guild come from a header searched in its own
\* content instead of the document's metadata
MessageOwnHeader(timestamp_str, author, c, md) ==
    [timestamp |-> FormattedTimestamp(timestamp_str),
     author |-> author,
     text |-> CleanContent(c),
     metadata |-> [attachments |-> ExtractAttachments(c, 1),
                   embeds |-> ExtractEmbeds(c),
                   reactions |-> ExtractReactions(c),
                   channel |-> HeaderMetadata(c).channel,
                   guild |-> HeaderMetadata(c).guild]]

\* line 35-83: the message built from the groups and the content in scope
Message(timestamp_str, author, c, md) ==
    [timestamp |-> FormattedTimestamp(timestamp_str),
     author |-> author,
     text |-> CleanContent(c),
     metadata |-> [attachments |-> ExtractAttachments(c, 1),
                   embeds |-> ExtractEmbeds(c),
                   reactions |-> ExtractReactions(c),
                   channel |-> md.channel,
                   guild |-> md.guild]]

----------------------------------------------------------------------------
(* Serialisation: json.dumps (line 111) and json.dump with indent (line 99) *)

IndentWidth == 2

\* an encoder that writes a newline of a str as it is
JsonEscapeRawNewline(c) ==
    IF c = "\"" THEN <<"\\", "\"">>
    ELSE IF c = "\\" THEN <<"\\", "\\">>
    ELSE <<c>>

\* the escapes json gives the characters of a str; the other control
\* characters and the non-ASCII characters, which json writes as \uXXXX, are
\* not among the characters of the modelled documents
JsonEscape(c) ==
    IF c = "\"" THEN <<"\\", "\"">>
    ELSE IF c = "\\" THEN <<"\\", "\\">>
    ELSE IF c = "\n" THEN <<"\\", "n">>
    ELSE IF c = "\r" THEN <<"\\", "r">>
    ELSE IF c = "\t" THEN <<"\\", "t">>
    ELSE <<c>>

JsonEscapeAll(s) == FlatMap([i \in 1..Len(s) |-> JsonEscape(s[i])], 1, Len(s))

JsonString(s) == <<"\"">> \o JsonEscapeAll(s) \o <<"\"">>

JsonNullable(v) ==
    IF v.isNone THEN <<"n", "u", "l", "l">> ELSE JsonString(v.str)

Spaces(n) == [i \in 1..n |-> " "]

\* the newline and indentation json writes with indent=2, nothing without
NewlineIndent(pretty, level) ==
    IF pretty THEN <<"\n">> \o Spaces(IndentWidth * level) ELSE <<>>

\* item separator: ', ' by default, ',' when an indent is given
ItemSeparator(pretty) == IF pretty THEN <<",">> ELSE <<",", " ">>

JsonItems(items, pretty, level) ==
    FlatMap([i \in 1..Len(items) |->
                 IF i = 1 THEN items[i]
                 ELSE ItemSeparator(pretty) \o NewlineIndent(pretty, level)
                          \o items[i]],
            1, Len(items))

\* a list or dict whose encoded items are given, opened and closed by the
\* one-character strings open and close
JsonContainer(open, close, items, pretty, level) ==
    IF items = <<>> THEN <<open, close>>
    ELSE <<open>> \o NewlineIndent(pretty, level + 1)
             \o JsonItems(items, pretty, level + 1)
             \o NewlineIndent(pretty, level) \o <<close>>

JsonStringList(strs, pretty, level) ==
    JsonContainer("[", "]", [i \in 1..Len(strs) |-> JsonString(strs[i])],
                  pretty, level)

KeyTimestamp == <<"\"", "t", "i", "m", "e", "s", "t", "a", "m", "p", "\"", ":", " ">>
KeyAuthor == <<"\"", "a", "u", "t", "h", "o", "r", "\"", ":", " ">>
KeyText == <<"\"", "t", "e", "x", "t", "\"", ":", " ">>
KeyMetadata == <<"\"", "m", "e", "t", "a", "d", "a", "t", "a", "\"", ":", " ">>
KeyAttachments ==
    <<"\"", "a", "t", "t", "a", "c", "h", "m", "e", "n", "t", "s", "\"", ":", " ">>
KeyEmbeds == <<"\"", "e", "m", "b", "e", "d", "s", "\"", ":", " ">>
KeyReactions == <<"\"", "r", "e", "a", "c", "t", "i", "o", "n", "s", "\"", ":", " ">>
KeyChannel == <<"\"", "c", "h", "a", "n", "n", "e", "l", "\"", ":", " ">>
KeyGuild == <<"\"", "g", "u", "i", "l", "d", "\"", ":", " ">>

\* one message dict, its keys in insertion order (line 72-83)
JsonMessage(m, pretty, level) ==
    JsonContainer("{", "}",
        <<KeyTimestamp \o JsonString(m.timestamp),
          KeyAuthor \o JsonString(m.author),
          KeyText \o JsonString(m.text),
          KeyMetadata \o JsonContainer("{", "}",
              <<KeyAttachments
                    \o JsonStringList(m.metadata.attachments, pretty, level + 2),
                KeyEmbeds \o JsonStringList(m.metadata.embeds, pretty, level + 2),
                KeyReactions
                    \o JsonStringList(m.metadata.reactions, pretty, level + 2),
                KeyChannel \o JsonNullable(m.metadata.channel),
                KeyGuild \o JsonNullable(m.metadata.guild)>>,
              pretty, level + 1)>>,
        pretty, level)

\* json.dumps(message)
JsonDumps(m) == JsonMessage(m, FALSE, 0)

\* json.dump(messages, f, indent=2)
JsonDumpIndent(msgs) ==
    JsonContainer("[", "]", [i \in 1..Len(msgs) |-> JsonMessage(msgs[i], TRUE, 1)],
                  TRUE, 0)

\* line 110-111: every message written as a line of its own
JsonlText(msgs) ==
    FlatMap([i \in 1..Len(msgs) |-> JsonDumps(msgs[i]) \o <<"\n">>],
            1, Len(msgs))

----------------------------------------------------------------------------
(* Input documents                                                         *)

Flatten(ps) == FlatMap([i \in 1..Len(ps) |-> ps[i]], 1, Len(ps))

\* every concatenation of at most n of the given pieces
Documents(pieces, n) ==
    {Flatten(f) : f \in UNION {[1..k -> pieces] : k \in 0..n}}

\* a delimiter line: [timestamp] author, with its newline
DelimLine(ts, author) == <<"[">> \o ts \o <<"]", " ", author, "\n">>

TsAfternoon ==
    <<"1", "/", "2", "/", "2", "0", "2", "3", " ", "3", ":", "0", "4", " ",
    "P", "M">>
TsNoSuchMonth ==
    <<"9", "9", "/", "9", "9", "/", "9", "9", "9", "9", " ", "1", ":", "0",
    "0", " ", "P", "M">>
TsMidnight ==
    <<"1", "2", "/", "3", "1", "/", "1", "9", "9", "9", " ", "1", "2", ":",
    "0", "5", " ", "A", "M">>
TsLeapNoon ==
    <<"2", "/", "2", "9", "/", "2", "0", "2", "4", " ", "1", "2", ":", "0",
    "0", " ", "P", "M">>
TsNoLeapDay ==
    <<"2", "/", "2", "9", "/", "2", "0", "2", "3", " ", "1", ":", "0", "0",
    " ", "A", "M">>
TsShortYear ==
    <<"1", "/", "2", "/", "2", "3", " ", "3", ":", "0", "4", " ", "P", "M">>
TsHour13 ==
    <<"1", "/", "2", "/", "2", "0", "2", "3", " ", "1", "3", ":", "0", "0",
    " ", "P", "M">>
TsShortMinute ==
    <<"4", "/", "3", "0", "/", "2", "0", "2", "3", " ", "9", ":", "5", " ",
    "A", "M">>
TsApril31 ==
    <<"4", "/", "3", "1", "/", "2", "0", "2", "3", " ", "0", "9", ":", "0",
    "5", " ", "A", "M">>
TsMinute60 ==
    <<"1", "0", "/", "1", "/", "2", "0", "2", "3", " ", "1", "1", ":", "6",
    "0", " ", "A", "M">>

DelimValid == DelimLine(TsAfternoon, "A")
DelimInvalid == DelimLine(TsNoSuchMonth, "B")
\* a delimiter line that ends the document without a newline
DelimUnterminated == <<"[">> \o TsMidnight \o <<"]", " ", "C">>
BodyLine == <<"h", "i", "\n">>
BannerOne ==
    <<"=", "=", "\n", "G", "u", "i", "l", "d", ":", " ", "G", "\n", "C",
    "h", "a", "n", "n", "e", "l", ":", " ", "a", " ", "/", " ", "b", "\n",
    "T", "o", "p", "i", "c", ":", " ", "t", "\n", "=", "=", "\n">>
BannerTwo ==
    <<"=", "=", "=", "\n", "G", "u", "i", "l", "d", ":", " ", "H", "\n",
    "C", "h", "a", "n", "n", "e", "l", ":", " ", "c", "\n", "T", "o", "p",
    "i", "c", ":", " ", "\n", "=", "=", "\n">>
BannerThree ==
    <<"=", "=", "\n", "G", "u", "i", "l", "d", ":", " ", "K", "\n", "C",
    "h", "a", "n", "n", "e", "l", ":", " ", "a", " ", "/", " ", "/", " ",
    "b", "\n", "T", "o", "p", "i", "c", ":", " ", "t", "\n", "=", "=", "=",
    "=", "\n">>

MaxPieces == 3

LogPieces ==
    {DelimValid, DelimInvalid, DelimUnterminated, BodyLine, BannerOne, BannerTwo,
     BannerThree}

MaxTsPieces == 2

TimestampPieces ==
    {DelimLine(TsAfternoon, "A"), DelimLine(TsNoSuchMonth, "B"),
     DelimLine(TsMidnight, "F"), DelimLine(TsLeapNoon, "D"),
     DelimLine(TsNoLeapDay, "E"), DelimLine(TsShortYear, "G"),
     DelimLine(TsHour13, "H"), DelimLine(TsShortMinute, "I"),
     DelimLine(TsApril31, "J"), DelimLine(TsMinute60, "K"),
     DelimUnterminated, BodyLine}

UrlLine ==
    <<"h", "t", "t", "p", "s", ":", "/", "/", "u", "\n">>
BracketLine ==
    <<"e", " ", "[", "x", "]", " ", "y", "\n">>
MarkerHead ==
    <<"{", "E", "m">>
MarkerTail ==
    <<"b", "e", "d", "}">>

MaxBodyPieces == 3

FieldPieces ==
    {DelimValid, AttachmentsMarker \o <<"\n">>, UrlLine, <<"\n">>,
     EmbedMarker \o <<"\n">>, BracketLine, ReactionsMarker \o <<"\n">>}

\* one message followed by at most n of the field pieces
FieldDocuments(n) == {DelimValid \o d : d \in Documents(FieldPieces, n)}

MaxMarkerPieces == 3

\* markers, fragments of a marker, and the characters that end a section
MarkerPieces ==
    {AttachmentsMarker, EmbedMarker, ReactionsMarker, MarkerHead, MarkerTail,
     <<"\n">>, <<"\n", "\n">>, <<"x", "[">>}

MarkerDocuments(n) == {DelimValid \o d : d \in Documents(MarkerPieces, n)}

Formats == {"json", "jsonl"}

----------------------------------------------------------------------------
(* main and parse_discord_data as a state machine                          *)

NoMetadata == [guild |-> None, channel |-> None, topic |-> None]

InitWith(docs) ==
    /\ document \in docs
    /\ format \in Formats
    /\ pc = "read"
    /\ content = <<>>
    /\ metadata = NoMetadata
    /\ iter = [string |-> <<>>, pos |-> 1]
    /\ messages = <<>>
    /\ output = <<>>

Init == InitWith(Documents(LogPieces, MaxPieces))

\* line 17-18
ReadFile ==
    /\ pc = "read"
    /\ content' = document
    /\ pc' = "header"
    /\ UNCHANGED <<document, format, metadata, iter, messages, output>>

\* line 21-30
ExtractHeader ==
    /\ pc = "header"
    /\ metadata' = HeaderMetadata(content)
    /\ messages' = <<>>
    /\ pc' = "finditer"
    /\ UNCHANGED <<document, format, content, iter, output>>

\* line 32, evaluated once: the iterator is created over the string that
\* `content` names at that moment
StartLoop ==
    /\ pc = "finditer"
    /\ iter' = [string |-> content, pos |-> 1]
    /\ pc' = "loop"
    /\ UNCHANGED <<document, format, content, metadata, messages, output>>

\* line 32-85: one iteration of the loop
LoopIteration ==
    LET match == MessageSearch(iter.string, iter.pos)
    IN  /\ pc = "loop"
        /\ match.found
        /\ content' = LoopContent(match, content)
        /\ messages' = Append(messages,
               Message(match.groups[1], match.groups[2], content', metadata))
        /\ iter' = [iter EXCEPT !.pos = match.end]
        /\ UNCHANGED <<document, format, pc, metadata, output>>

\* line 87 and 122-123: the iterator is exhausted
LoopExit ==
    /\ pc = "loop"
    /\ ~MessageSearch(iter.string, iter.pos).found
    /\ pc' = "save"
    /\ UNCHANGED <<document, format, content, metadata, iter, messages, output>>

\* line 125-126 and 109-111
SaveToJsonl ==
    /\ pc = "save"
    /\ format = "jsonl"
    /\ output' = JsonlText(messages)
    /\ pc' = "done"
    /\ UNCHANGED <<document, format, content, metadata, iter, messages>>

\* line 127-128 and 98-99
SaveForLabelStudio ==
    /\ pc = "save"
    /\ format # "jsonl"
    /\ output' = JsonDumpIndent(messages)
    /\ pc' = "done"
    /\ UNCHANGED <<document, format, content, metadata, iter, messages>>

Next ==
    \/ ReadFile
    \/ ExtractHeader
    \/ StartLoop
    \/ LoopIteration
    \/ LoopExit
    \/ SaveToJsonl
    \/ SaveForLabelStudio

Spec == Init /\ [][Next]_vars

InitTimestamps == InitWith(Documents(TimestampPieces, MaxTsPieces))

SpecTimestamps == InitTimestamps /\ [][Next]_vars

InitFields == InitWith(FieldDocuments(MaxBodyPieces))

SpecFields == InitFields /\ [][Next]_vars

InitMarkers == InitWith(MarkerDocuments(MaxMarkerPieces))

SpecMarkers == InitMarkers /\ [][Next]_vars

----------------------------------------------------------------------------
(* Vocabulary of the properties: lines, delimiter lines, chunks            *)

LastOf(s) == s[Len(s)]

StartsWith(s, lit) == LitAt(s, 1, lit)

EndsWith(s, lit) == LitAt(s, Len(s) - Len(lit) + 1, lit)

\* a line of the form [M/D/Y H:Min AM|PM] author
IsDelimiterLine(line) ==
    LET e == TimestampBracketEnd(line, 1)
    IN  e # 0 /\ LitAt(line, e, <<" ">>) /\ Len(line) > e

\* the delimiter lines of a document, in order; the last line of a document
\* may lack its newline
DelimiterLines(doc) == SelectSeq(SplitLines(doc), IsDelimiterLine)

\* the delimiter lines that are ended by a newline
TerminatedDelimiterLines(doc) ==
    LET ls == SplitLines(doc)
    IN  SelectSeq(SubSeq(ls, 1, Len(ls) - 1), IsDelimiterLine)

LineTimestamp(line) == SubSeq(line, 2, TimestampBracketEnd(line, 1) - 2)

LineAuthor(line) == SubSeq(line, TimestampBracketEnd(line, 1) + 1, Len(line))

\* the positions where a timestamp bracket starts, in order
BracketStarts(doc) ==
    FlatMap([p \in 1..Len(doc) |->
                 IF TimestampBracketEnd(doc, p) # 0 THEN <<p>> ELSE <<>>],
            1, Len(doc))

\* the chunk of the i-th message: from its delimiter to the next, or to the end
ChunkText(doc, i) ==
    LET bs == BracketStarts(doc)
    IN  SubSeq(doc, bs[i], IF i < Len(bs) THEN bs[i + 1] - 1 ELSE Len(doc))

----------------------------------------------------------------------------
(* C1: one record per delimiter line                                       *)

\* C1: when parsing is over, there are exactly as many records as the
\* document has delimiter lines, and the i-th record has the author of the
\* i-th delimiter line; a delimiter line that ends the document counts.
C1_RecordPerDelimiterLine ==
    pc = "done" =>
        /\ Len(messages) = Len(DelimiterLines(document))
        /\ \A i \in 1..Len(messages) :
               messages[i].author = LineAuthor(DelimiterLines(document)[i])

----------------------------------------------------------------------------
(* C8: the header                                                          *)

\* a banner whose separator line is line k: the text before the newline ends
\* in ==, then a Guild:, a Channel: and a Topic: line, then a line starting ==
BannerAt(lines, k) ==
    /\ k + 4 <= Len(lines)
    /\ EndsWith(lines[k], <<"=", "=">>)
    /\ StartsWith(lines[k + 1], Tail(GuildLit))
    /\ StartsWith(lines[k + 2], Tail(ChannelLit))
    /\ StartsWith(lines[k + 3], Tail(TopicLit))
    /\ StartsWith(lines[k + 4], <<"=", "=">>)

\* the line of the first banner, or 0
FirstBanner(lines) ==
    IF \E k \in 1..Len(lines) : BannerAt(lines, k)
    THEN CHOOSE k \in 1..Len(lines) :
             /\ BannerAt(lines, k)
             /\ \A j \in 1..(k - 1) : ~BannerAt(lines, j)
    ELSE 0

\* the positions of the ' / ' separators of s, read left to right
RECURSIVE SeparatorStarts(_, _)
SeparatorStarts(s, p) ==
    LET i == Find(s, ChannelSep, p)
    IN  IF i = 0 THEN <<>> ELSE <<i>> \o SeparatorStarts(s, i + Len(ChannelSep))

TextAfterLastSeparator(s) ==
    LET seps == SeparatorStarts(s, 1)
    IN  IF seps = <<>> THEN s
        ELSE SubSeq(s, LastOf(seps) + Len(ChannelSep), Len(s))

FieldValue(line, prefix) == SubSeq(line, Len(prefix) + 1, Len(line))

\* C8: once the header is extracted, the metadata is that of the first banner
\* of the document, guild and topic as written and channel the text after the
\* last ' / '; without a banner all three are null and every delimiter line
\* ended by a newline still gives its record.
C8_HeaderFromFirstBanner ==
    pc \notin {"read", "header"} =>
        LET lines == SplitLines(document)
            k == FirstBanner(lines)
        IN  IF k = 0
            THEN /\ metadata = NoMetadata
                 /\ pc = "done" =>
                        Len(messages) = Len(TerminatedDelimiterLines(document))
            ELSE /\ metadata.guild = Str(FieldValue(lines[k + 1], Tail(GuildLit)))
                 /\ metadata.channel =
                        Str(TextAfterLastSeparator(
                                FieldValue(lines[k + 2], Tail(ChannelLit))))
                 /\ metadata.topic = Str(FieldValue(lines[k + 3], Tail(TopicLit)))

\* C8 witness: a document with two banners and a message, parsed to the end,
\* whose metadata is that of the banner with the doubled separator
C8_Witness ==
    /\ pc = "done"
    /\ messages # <<>>
    /\ Contains(document, BannerThree \o BannerOne)
    /\ metadata.guild = Str(<<"K">>)
    /\ metadata.channel = Str(<<"/", " ", "b">>)

----------------------------------------------------------------------------
(* C9: records carry the document's channel and guild                      *)

\* C9: every record's channel and guild are the ones of the document-level
\* metadata that is returned with the records.
C9_RecordsShareDocumentMetadata ==
    \A i \in 1..Len(messages) :
        /\ messages[i].metadata.channel = metadata.channel
        /\ messages[i].metadata.guild = metadata.guild

\* C9 witness: the header names guild G and a message body holds a banner
\* that names guild H
C9_Witness ==
    /\ pc = "done"
    /\ metadata.guild = Str(<<"G">>)
    /\ \E i \in 1..Len(messages) :
           /\ Contains(messages[i].text, Tail(GuildLit) \o <<"H">>)
           /\ messages[i].metadata.guild = Str(<<"G">>)

----------------------------------------------------------------------------
(* C10: the two output formats                                             *)

\* a line without its indentation
Unindented(line) == SubSeq(line, SkipIn(line, 1, {" "}), Len(line))

\* the lines of an indented JSON text put back on one line: the indentation
\* dropped and a space put after each comma that ends a line
OnOneLine(lines) ==
    FlatMap([i \in 1..Len(lines) |->
                 Unindented(lines[i])
                     \o (IF EndsWith(lines[i], <<",">>) THEN <<" ">> ELSE <<>>)],
            1, Len(lines))

\* the objects of the records, separated by ', '
ObjectsInOrder(msgs) ==
    FlatMap([i \in 1..Len(msgs) |->
                 IF i = 1 THEN JsonDumps(msgs[i])
                 ELSE <<",", " ">> \o JsonDumps(msgs[i])],
            1, Len(msgs))

\* C10: with format jsonl the output has one line per record, the i-th line
\* being the i-th record's object, and is empty without records; with any
\* other format the output is one array holding the records in order.
C10_OutputPerFormat ==
    pc = "done" =>
        IF format = "jsonl"
        THEN LET ls == SplitLines(output)
             IN  /\ Len(ls) = Len(messages) + 1
                 /\ LastOf(ls) = <<>>
                 /\ \A i \in 1..Len(messages) :
                        /\ ls[i] = JsonDumps(messages[i])
                        /\ StartsWith(ls[i], <<"{">>)
                        /\ EndsWith(ls[i], <<"}">>)
                 /\ (messages = <<>> => output = <<>>)
        ELSE OnOneLine(SplitLines(output))
                 = <<"[">> \o ObjectsInOrder(messages) \o <<"]">>

\* C10 witness: jsonl output of two records, one with a two-line text
C10_Witness ==
    /\ pc = "done"
    /\ format = "jsonl"
    /\ Len(messages) = 2
    /\ \E i \in 1..2 : Contains(messages[i].text, <<"\n">>)
    /\ Len(SplitLines(output)) = 3

----------------------------------------------------------------------------
(* C6: timestamps                                                          *)

MonthLength == <<31, 28, 31, 30, 31, 30, 31, 31, 30, 31, 30, 31>>

LeapYear(y) == y % 400 = 0 \/ (y % 4 = 0 /\ y % 100 # 0)

\* the literal is a month/day/year hour:minute AM|PM value: a month of the
\* year, a day of that month, a four-digit year, an hour of the 12-hour clock
\* and a minute of the hour, each of month, day, hour, minute in one or two digits
IsValidTimestamp(lit) ==
    LET f == TimestampFields(lit)
        mo == ToInt(f.m)
    IN  /\ Len(f.m) \in 1..2 /\ mo \in 1..12
        /\ Len(f.Y) = 4 /\ ToInt(f.Y) >= 1
        /\ Len(f.d) \in 1..2
        /\ ToInt(f.d) \in
               1..(MonthLength[mo]
                       + (IF mo = 2 /\ LeapYear(ToInt(f.Y)) THEN 1 ELSE 0))
        /\ Len(f.I) \in 1..2 /\ ToInt(f.I) \in 1..12
        /\ Len(f.M) \in 1..2 /\ ToInt(f.M) \in 0..59

\* iso is YYYY-MM-DDTHH:MM:00 and names the instant that lit names
IsIsoOf(iso, lit) ==
    LET f == TimestampFields(lit)
    IN  /\ Len(iso) = 19
        /\ \A i \in {1, 2, 3, 4, 6, 7, 9, 10, 12, 13, 15, 16} : iso[i] \in Digit
        /\ iso[5] = "-" /\ iso[8] = "-" /\ iso[11] = "T" /\ iso[14] = ":"
        /\ SubSeq(iso, 17, 19) = <<":", "0", "0">>
        /\ ToInt(SubSeq(iso, 1, 4)) = ToInt(f.Y)
        /\ ToInt(SubSeq(iso, 6, 7)) = ToInt(f.m)
        /\ ToInt(SubSeq(iso, 9, 10)) = ToInt(f.d)
        /\ ToInt(SubSeq(iso, 12, 13))
               = (ToInt(f.I) % 12) + (IF f.p = "P" THEN 12 ELSE 0)
        /\ ToInt(SubSeq(iso, 15, 16)) = ToInt(f.M)

\* C6: the i-th record has the timestamp of the i-th delimiter line, in
\* ISO-8601 form when the literal is a valid value and as written otherwise;
\* when parsing is over every delimiter line ended by a newline has its record,
\* whatever the timestamps of the lines before and after it.
C6_TimestampIsoOrVerbatim ==
    LET dl == TerminatedDelimiterLines(document)
    IN  /\ Len(messages) <= Len(dl)
        /\ pc = "done" => Len(messages) = Len(dl)
        /\ \A i \in 1..Len(messages) :
               LET lit == LineTimestamp(dl[i])
               IN  IF IsValidTimestamp(lit)
                   THEN IsIsoOf(messages[i].timestamp, lit)
                   ELSE messages[i].timestamp = lit

\* C6 witness: a February 29 of a common year, kept as written, followed by
\* five past midnight, normalized
C6_Witness ==
    /\ pc = "done"
    /\ Len(messages) = 2
    /\ messages[1].timestamp = TsNoLeapDay
    /\ messages[2].timestamp
           = <<"1", "9", "9", "9", "-", "1", "2", "-", "3", "1", "T", "0", "0",
               ":", "0", "5", ":", "0", "0">>

----------------------------------------------------------------------------
(* C2: the cleaned text holds no marker                                    *)

\* C2: no record's text contains {Attachments}, {Embed} or {Reactions}.
C2_TextHasNoMarker ==
    \A i \in 1..Len(messages) :
        /\ ~Contains(messages[i].text, AttachmentsMarker)
        /\ ~Contains(messages[i].text, EmbedMarker)
        /\ ~Contains(messages[i].text, ReactionsMarker)

\* C2 witness: an {Attachments} marker inside the letters of an {Embed}
\* marker; the section is removed and the letters before it are the text
C2_Witness ==
    /\ pc = "done"
    /\ Contains(document, MarkerHead \o AttachmentsMarker \o MarkerTail)
    /\ messages # <<>>
    /\ LastOf(messages).text = MarkerHead

----------------------------------------------------------------------------
(* C4: embeds and reactions come from the record's own chunk               *)

\* C4: a record whose chunk has no {Embed} marker has no embeds, one whose
\* chunk has no {Reactions} marker has no reactions, and every embed and
\* reaction entry of a record is text of that record's own chunk.
C4_EmbedsAndReactionsFromOwnChunk ==
    /\ Len(messages) <= Len(BracketStarts(document))
    /\ \A i \in 1..Len(messages) :
           LET chunk == ChunkText(document, i)
               md == messages[i].metadata
           IN  /\ ~Contains(chunk, EmbedMarker) => md.embeds = <<>>
               /\ ~Contains(chunk, ReactionsMarker) => md.reactions = <<>>
               /\ \A j \in 1..Len(md.embeds) : Contains(chunk, md.embeds[j])
               /\ \A j \in 1..Len(md.reactions) : Contains(chunk, md.reactions[j])

\* C4 witness: a message without sections followed by a message with an
\* {Embed} section
C4_Witness ==
    /\ pc = "done"
    /\ Len(messages) = 2
    /\ messages[1].metadata.embeds = <<>>
    /\ messages[2].metadata.embeds # <<>>
    /\ Contains(ChunkText(document, 2), EmbedMarker)

----------------------------------------------------------------------------
(* C3, C5, C7: what is extracted from one chunk body.  After an iteration  *)
(* of the loop `content` is the body of the chunk of the last record.      *)

\* the https:// lines that follow a line beginning with {Attachments}; blank
\* lines between the marker and its URL lines do not end the section
RECURSIVE UrlLinesAfterMarkers(_, _, _)
UrlLinesAfterMarkers(lines, k, inSection) ==
    IF k > Len(lines) THEN <<>>
    ELSE IF StartsWith(lines[k], AttachmentsMarker)
    THEN UrlLinesAfterMarkers(lines, k + 1, TRUE)
    ELSE IF inSection /\ StartsWith(lines[k], HttpsLit)
    THEN <<lines[k]>> \o UrlLinesAfterMarkers(lines, k + 1, TRUE)
    ELSE IF inSection /\ Strip(lines[k]) = <<>>
    THEN UrlLinesAfterMarkers(lines, k + 1, TRUE)
    ELSE UrlLinesAfterMarkers(lines, k + 1, FALSE)

\* C3: the attachments of a record are the https:// lines that follow the
\* {Attachments} marker lines of its chunk, one entry per line, in order.
C3_AttachmentsAreAllUrlLines ==
    messages # <<>> =>
        LastOf(messages).metadata.attachments
            = UrlLinesAfterMarkers(SplitLines(content), 1, FALSE)

\* C5: when the chunk has an {Embed} marker, the embeds of the record are all
\* the non-blank lines, trimmed, from after the first marker to the end of
\* the chunk; a '[' in such a line does not end the section.
C5_EmbedsAreAllLinesAfterMarker ==
    (messages # <<>> /\ Contains(content, EmbedMarker)) =>
        LastOf(messages).metadata.embeds
            = StrippedNonBlank(SplitLines(
                  SubSeq(content, Find(content, EmbedMarker, 1) + Len(EmbedMarker),
                         Len(content))))

\* C7: no URL hoisted into the attachments of a record occurs in its text,
\* and the text has no blank line and no leading or trailing whitespace.
C7_HoistedUrlsAbsentFromText ==
    messages # <<>> =>
        LET m == LastOf(messages)
        IN  /\ \A j \in 1..Len(m.metadata.attachments) :
                   ~Contains(m.text, m.metadata.attachments[j])
            /\ Strip(m.text) = m.text
            /\ ~Contains(m.text, <<"\n", "\n">>)

====
